---------------------------- MODULE Spec2Model ----------------------------
(***************************************************************************)
(* A model of pyscf/pbc/tdscf/krhf_slow_supercell.py: the three ERI block  *)
(* providers (PhysERI, PhysERI4, PhysERI8), the merged-block routines, the *)
(* amplitude reshaper, the kernel function and the TDRHF container.        *)
(*                                                                         *)
(* Python indices are kept 0-based: k-points, orbitals and array indices   *)
(* run over 0..n-1.  A Python tuple (a, b, c, d) is the TLA+ tuple         *)
(* <<a, b, c, d>>.  A call is a function of its arguments that gives the   *)
(* call's result together with what the call did besides (the backend      *)
(* calls it made, the caller's array after the call, the exception         *)
(* raised, as status).                                                     *)
(***************************************************************************)
EXTENDS Integers, Sequences, FiniteSets, TLC

(***************************************************************************)
(* Bounds of the model.                                                    *)
(***************************************************************************)
MaxNk == 2
MaxNmo == 3
MaxRoots == 2

\* Python's None, and a value that may be None: <<>> or <<v>>
None == <<>>
Some(v) == <<v>>

(***************************************************************************)
(* numpy arrays.  An array is [shape, flat]: flat holds the elements in    *)
(* C (row-major) order, flat[f + 1] the element at flat position f.        *)
(***************************************************************************)
RECURSIVE Prod(_)
Prod(s) == IF Len(s) = 0 THEN 1 ELSE Head(s) * Prod(Tail(s))

RECURSIVE SumSeq(_)
SumSeq(s) == IF Len(s) = 0 THEN 0 ELSE Head(s) + SumSeq(Tail(s))

RECURSIVE SumTo(_, _)
SumTo(F(_), n) == IF n = 0 THEN 0 ELSE F(n - 1) + SumTo(F, n - 1)

\* the sequence <<F(0), .., F(n - 1)>>
RECURSIVE Tabulate(_, _)
Tabulate(F(_), n) == IF n = 0 THEN <<>> ELSE Append(Tabulate(F, n - 1), F(n - 1))

\* the flat position of index tuple idx in an array of this shape
Ravel(idx, shape) ==
    LET RECURSIVE R(_)
        R(n) == IF n = 0 THEN 0 ELSE R(n - 1) * shape[n] + idx[n]
    IN  R(Len(shape))

\* the index tuple at flat position f of an array of this shape
Unravel(f, shape) ==
    LET RECURSIVE U(_, _)
        U(n, rest) == IF n = 0 THEN <<>>
                      ELSE Append(U(n - 1, rest \div shape[n]), rest % shape[n])
    IN  U(Len(shape), f)

\* all index tuples of an array of this shape
RECURSIVE Indices(_)
Indices(shape) ==
    IF Len(shape) = 0 THEN {<<>>}
    ELSE {<<i>> \o rest : i \in 0..(Head(shape) - 1), rest \in Indices(Tail(shape))}

\* the array of this shape with element F(idx) at index tuple idx
MkArray(shape, F(_)) ==
    [shape |-> shape, flat |-> [f \in 1..Prod(shape) |-> F(Unravel(f - 1, shape))]]

\* a[idx]
At(a, idx) == a.flat[Ravel(idx, a.shape) + 1]

\* numpy.ndarray.reshape: the elements keep their flat position
Reshape(a, newshape) == [shape |-> newshape, flat |-> a.flat]

Swap(s, i, j) == [n \in 1..Len(s) |-> IF n = i THEN s[j] ELSE IF n = j THEN s[i] ELSE s[n]]

\* numpy.ndarray.swapaxes(i, j), the axes counted from 1 here
SwapAxes(a, i, j) == MkArray(Swap(a.shape, i, j), LAMBDA idx : At(a, Swap(idx, i, j)))

\* numpy.ndarray.transpose(axes): axis n of the result is axis axes[n] of a
\* (0-based, as in Python)
Transpose(a, axes) ==
    LET \* from[m]: the axis of the result that axis m of a becomes
        from == Tabulate(LAMBDA m : CHOOSE n \in 1..Len(axes) : axes[n] = m, Len(axes))
    IN  MkArray([n \in 1..Len(axes) |-> a.shape[axes[n] + 1]],
                LAMBDA idx : At(a, [m \in 1..Len(axes) |-> idx[from[m]]]))

\* numpy.zeros(shape)
Zero == [orb |-> <<>>, kpts |-> <<>>]
Zeros(shape) == MkArray(shape, LAMBDA idx : Zero)

\* a[slc]: slc is one <<start, stop>> per axis
Slice(a, slc) ==
    MkArray([n \in 1..Len(slc) |-> slc[n][2] - slc[n][1]],
            LAMBDA idx : At(a, [n \in 1..Len(slc) |-> idx[n] + slc[n][1]]))

(***************************************************************************)
(* The mean-field model (an external collaborator): per k-point orbital    *)
(* coefficients and occupations, the cell and the k-point list.  The cell  *)
(* is one-dimensional: a k-point is a position on a ring of `cell' points  *)
(* of the reciprocal lattice.  Column j of mo_coeff[k] is named <<k, j>>.  *)
(***************************************************************************)
Shapes == {<<o, n>> : n \in 2..MaxNmo, o \in 1..(MaxNmo - 1)} \cap
          {s \in (1..MaxNmo) \X (1..MaxNmo) : s[1] < s[2]}

MkModel(nk, cell, kpts, shape, dtype) ==
    [nk       |-> nk,
     cell     |-> cell,
     kpts     |-> kpts,
     mo_occ   |-> [k \in 0..(nk - 1) |->
                     [j \in 1..shape[k][2] |-> IF j <= shape[k][1] THEN 2 ELSE 0]],
     mo_coeff |-> [k \in 0..(nk - 1) |->
                     [rows  |-> shape[k][2],
                      cols  |-> [j \in 1..shape[k][2] |-> <<k, j - 1>>],
                      dtype |-> dtype]]]

\* a second shape beside base: one more occupied orbital, one more orbital, or both
AltShapes(base) ==
    {<<base[1] + 1, base[2]>>, <<base[1], base[2] + 1>>, <<base[1] + 1, base[2] + 1>>}
        \cap Shapes

\* per k-point shapes: all k-points alike, or the last of several k-points
\* differs; bases are the shapes the first k-point may have
ShapeMaps(nk, bases) ==
    {[k \in 0..(nk - 1) |-> base] : base \in bases} \cup
    UNION {{[k \in 0..(nk - 1) |-> IF k = nk - 1 THEN alt ELSE base] :
                alt \in IF nk > 1 THEN AltShapes(base) ELSE {}} : base \in bases}

\* orbitals are real where every k-point is its own inverse, complex elsewhere
DTypeAt(cell, kpts, nk) ==
    IF \A k \in 0..(nk - 1) : (2 * kpts[k]) % cell = 0 THEN "float64" ELSE "complex128"

\* the k-point lists: the full grid of nk points, or nk points of a grid of nk + 1
ModelsOf(bases) ==
    UNION {{MkModel(nk, cell, [k \in 0..(nk - 1) |-> k], shape,
                    DTypeAt(cell, [k \in 0..(nk - 1) |-> k], nk)) :
                cell \in {nk, nk + 1}, shape \in ShapeMaps(nk, bases)} :
           nk \in 1..MaxNk}

Models == ModelsOf(Shapes)

\* lines 42-51
k_nocc(model) == [k \in 0..(model.nk - 1) |-> SumSeq(model.mo_occ[k]) \div 2]

\* lines 54-63
k_nmo(model) == [k \in 0..(model.nk - 1) |-> model.mo_coeff[k].rows]

(***************************************************************************)
(* pyscf.pbc.tools.get_kconserv and pyscf.pbc.lib.kpts_helper.loop_kkk.    *)
(* get_kconserv(cell, kpts)[K, L, M] is the N with kpts[K] - kpts[L] +     *)
(* kpts[M] - kpts[N] a reciprocal lattice vector, and 0 where there is     *)
(* none (the array starts as zeros).                                       *)
(***************************************************************************)
KTriples(nk) == (0..(nk - 1)) \X (0..(nk - 1)) \X (0..(nk - 1))

get_kconserv(cell, kpts, nk) ==
    [t \in KTriples(nk) |->
        LET hits == {n \in 0..(nk - 1) :
                        (kpts[t[1]] - kpts[t[2]] + kpts[t[3]] - kpts[n]) % cell = 0}
        IN  IF hits = {} THEN 0 ELSE CHOOSE n \in hits : \A m \in hits : m <= n]

\* get_kconserv(...).swapaxes(1, 2), as lines 79 and 213 store it
kconserv_of(model) ==
    LET raw == get_kconserv(model.cell, model.kpts, model.nk)
    IN  [t \in KTriples(model.nk) |-> raw[<<t[1], t[3], t[2]>>]]

\* all ordered triples in lexicographic order
loop_kkk(nk) ==
    [f \in 1..(nk * nk * nk) |->
        <<(f - 1) \div (nk * nk), ((f - 1) \div nk) % nk, (f - 1) % nk>>]

(***************************************************************************)
(* The integral backend, model.with_df.ao2mo(coeff, kpts, compact=False):  *)
(* a two-dimensional array with one row per column pair of coeff[0] and    *)
(* coeff[1] and one column per column pair of coeff[2] and coeff[3]; the   *)
(* transform acts column-wise, so an element is a function of the four     *)
(* orbital columns and the four k-points it belongs to.                    *)
(***************************************************************************)
with_df_ao2mo(coeff, kpts) ==
    LET n == <<Len(coeff[1].cols), Len(coeff[2].cols), Len(coeff[3].cols), Len(coeff[4].cols)>>
    IN  MkArray(<<n[1] * n[2], n[3] * n[4]>>,
                LAMBDA rc : [orb  |-> <<coeff[1].cols[(rc[1] \div n[2]) + 1],
                                        coeff[2].cols[(rc[1] % n[2]) + 1],
                                        coeff[3].cols[(rc[2] \div n[4]) + 1],
                                        coeff[4].cols[(rc[2] % n[4]) + 1]>>,
                             kpts |-> kpts])

\* PhysERI.ao2mo_k, lines 95-110
ao2mo_k(model, coeff, k) ==
    LET coeff_ == <<coeff[1], coeff[3], coeff[2], coeff[4]>>
        k_     == <<k[1], k[3], k[2], k[4]>>
        result == with_df_ao2mo(coeff_, [i \in 1..4 |-> model.kpts[k_[i]]])
    IN  SwapAxes(Reshape(result, [i \in 1..4 |-> Len(coeff_[i].cols)]), 2, 3)

\* dictionary assignment d[key] = value
DictSet(d, key, value) ==
    [x \in (DOMAIN d) \cup {key} |-> IF x = key THEN value ELSE d[x]]

EmptyDict == [x \in {} |-> 0]

(***************************************************************************)
(* PhysERI.__init__, lines 68-83: the loop over loop_kkk calls the         *)
(* transform once per pass, with the full coefficient sets of the four     *)
(* k-points, and stores its result in the cache.  The model holds a stored *)
(* tensor as the quadruple the transform was called for (the backend is a  *)
(* function of its arguments) and computes its elements where they are     *)
(* read; `transforms' lists the calls made, each by its quadruple.         *)
(***************************************************************************)
Stored(k) == [full |-> k]
TensorOf(model, stored) ==
    ao2mo_k(model, [i \in 1..4 |-> model.mo_coeff[stored.full[i]]], stored.full)

\* a variant of the loop that takes the third k-point as the fourth
RECURSIVE PhysERI_fill_k3(_, _, _, _, _)
PhysERI_fill_k3(model, kconserv, triples, cache, transforms) ==
    IF Len(triples) = 0
    THEN [cache |-> cache, transforms |-> transforms]
    ELSE LET k == Head(triples) \o <<Head(triples)[3]>>
         IN  PhysERI_fill_k3(model, kconserv, Tail(triples),
                 DictSet(cache, k, Stored(k)),
                 Append(transforms, k))

RECURSIVE PhysERI_fill(_, _, _, _, _)
PhysERI_fill(model, kconserv, triples, cache, transforms) ==
    IF Len(triples) = 0
    THEN [cache |-> cache, transforms |-> transforms]
    ELSE LET k == Head(triples) \o <<kconserv[Head(triples)]>>
         IN  PhysERI_fill(model, kconserv, Tail(triples),
                 DictSet(cache, k, Stored(k)),
                 Append(transforms, k))

\* id tells one provider object from another
PhysERI_init(model, id) ==
    LET kconserv == kconserv_of(model)
        filled   == PhysERI_fill(model, kconserv, loop_kkk(model.nk), EmptyDict, <<>>)
    IN  [self |-> [cls |-> "PhysERI", id |-> id, model |-> model, kconserv |-> kconserv,
                   full_eri_k |-> filled.cache],
         transforms |-> filled.transforms]

\* PhysERI4.__init__, lines 203-213, and PhysERI8.__init__, lines 241-249
PhysERI4_init(cls, model, id) ==
    [self |-> [cls |-> cls, id |-> id, model |-> model, kconserv |-> kconserv_of(model)],
     transforms |-> <<>>]

\* the properties nocc and nmo, lines 85-93
nocc_of(self) == k_nocc(self.model)
nmo_of(self) == k_nmo(self.model)

\* a variant of ZeroShape that takes all orbitals of a k-point for 'v'
ZeroShape_nmo(self, item, k) ==
    [i \in 1..4 |-> IF item[i] = "o" THEN nocc_of(self)[k[i]] ELSE nmo_of(self)[k[i]]]

\* the shape of the zero block, lines 150-153 and 222-225
ZeroShape(self, item, k) ==
    [i \in 1..4 |-> IF item[i] = "o" THEN nocc_of(self)[k[i]]
                    ELSE nmo_of(self)[k[i]] - nocc_of(self)[k[i]]]

\* a variant of PhysERI.__calc_block__ that takes the virtual block from the
\* first orbitals of the tensor
PhysERI_calc_block_head(self, item, k) ==
    IF k \in DOMAIN self.full_eri_k
    THEN LET full == TensorOf(self.model, self.full_eri_k[k])
             slc  == [i \in 1..4 |-> IF item[i] = "o" THEN <<0, nocc_of(self)[k[i]]>>
                                     ELSE <<0, full.shape[i] - nocc_of(self)[k[i]]>>]
         IN  [block |-> Slice(full, slc), transforms |-> <<>>]
    ELSE [block |-> Zeros(ZeroShape(self, item, k)), transforms |-> <<>>]

\* PhysERI.__calc_block__, lines 145-153; no transform is called
PhysERI_calc_block(self, item, k) ==
    IF k \in DOMAIN self.full_eri_k
    THEN LET full == TensorOf(self.model, self.full_eri_k[k])
             slc  == [i \in 1..4 |-> IF item[i] = "o" THEN <<0, nocc_of(self)[k[i]]>>
                                     ELSE <<nocc_of(self)[k[i]], full.shape[i]>>]
         IN  [block |-> Slice(full, slc), transforms |-> <<>>]
    ELSE [block |-> Zeros(ZeroShape(self, item, k)), transforms |-> <<>>]

\* PhysERI4.__calc_block__, lines 215-225, inherited by PhysERI8
PhysERI4_calc_block(self, item, k) ==
    IF self.kconserv[<<k[1], k[2], k[3]>>] = k[4]
    THEN LET m == self.model.mo_coeff
             coeff == [i \in 1..4 |->
                         IF item[i] = "o"
                         THEN [m[k[i]] EXCEPT !.cols = SubSeq(@, 1, nocc_of(self)[k[i]])]
                         ELSE [m[k[i]] EXCEPT !.cols = SubSeq(@, nocc_of(self)[k[i]] + 1, Len(@))]]
         IN  [block |-> ao2mo_k(self.model, coeff, k), transforms |-> <<k>>]
    ELSE [block |-> Zeros(ZeroShape(self, item, k)), transforms |-> <<>>]

\* method dispatch on the provider's class
calc_block(self, item, k) ==
    IF self.cls = "PhysERI" THEN PhysERI_calc_block(self, item, k)
    ELSE PhysERI4_calc_block(self, item, k)

Classes == {"PhysERI", "PhysERI4", "PhysERI8"}
Items_ov == {<<a, b, c, d>> : a \in {"o", "v"}, b \in {"o", "v"}, c \in {"o", "v"}, d \in {"o", "v"}}
KQuads(nk) == (0..(nk - 1)) \X (0..(nk - 1)) \X (0..(nk - 1)) \X (0..(nk - 1))

(***************************************************************************)
(* Iterables.  A list or tuple gives its items on every pass, an iterator  *)
(* (such as itertools.product) on its first pass only.                     *)
(***************************************************************************)
List(items) == [kind |-> "list", items |-> items]
Iter(items) == [kind |-> "iterator", items |-> items]

\* the items the pass-th loop over the iterable sees
Pass(it, pass) == IF it.kind = "iterator" /\ pass > 1 THEN <<>> ELSE it.items

\* a variant of Materialize that leaves the iterable as it is
Unmaterialized(it) == it

\* tuple(it), taken before any loop over it
Materialize(it) == [kind |-> "tuple", items |-> Pass(it, 1)]

\* a variant of product whose first index runs fastest
product_colmajor(n) == Iter([f \in 1..(n * n) |-> <<(f - 1) % n, (f - 1) \div n>>])

\* itertools.product(range(n), range(n))
product(n) == Iter([f \in 1..(n * n) |-> <<(f - 1) \div n, (f - 1) % n>>])

(***************************************************************************)
(* The routines inherited from pyscf.tdscf.rhf_slow.TDDFTMatrixBlocks give *)
(* one dense block per k-point tuple; the model names the block by the     *)
(* request that produced it.                                               *)
(***************************************************************************)
\* PhysERI.tdhf_diag_k, lines 116-127
tdhf_diag_k(self, k1, k2) == [diag |-> <<k1, k2>>]

\* PhysERI.eri_mknj_k, lines 155-166
eri_mknj_k(self, item, k) == [item |-> item, k |-> k]

ZeroBlock == [zero |-> TRUE]

\* scipy.linalg.block_diag(*blocks)
block_diag(blocks) ==
    [shape |-> <<Len(blocks), Len(blocks)>>,
     data  |-> [ij \in Indices(<<Len(blocks), Len(blocks)>>) |->
                  IF ij[1] = ij[2] THEN Some(blocks[ij[1] + 1]) ELSE Some(ZeroBlock)]]

\* numpy.block(rows) of a list of lists: ValueError on an empty or ragged list
numpy_block(rows) ==
    IF \/ Len(rows) = 0
       \/ \E i \in 1..Len(rows) : Len(rows[i]) = 0 \/ Len(rows[i]) # Len(rows[1])
    THEN [status |-> "ValueError", shape |-> <<0, 0>>, data |-> <<>>]
    ELSE [status |-> "ok",
          shape  |-> <<Len(rows), Len(rows[1])>>,
          data   |-> [ij \in Indices(<<Len(rows), Len(rows[1])>>) |->
                        rows[ij[1] + 1][ij[2] + 1]]]

\* PhysERI.tdhf_diag, lines 129-143
tdhf_diag(self, pairs) ==
    LET pairs_ == IF pairs = None THEN product(self.model.nk) ELSE pairs[1]
        seen   == Pass(pairs_, 1)
        result == [n \in 1..Len(seen) |-> tdhf_diag_k(self, seen[n][1], seen[n][2])]
    IN  [status |-> "ok", ret |-> block_diag(result), requests |-> seen]

\* PhysERI.eri_mknj, lines 168-192
eri_mknj(self, item, pairs_row, pairs_column) ==
    LET nk      == self.model.nk
        rows    == IF pairs_row = None THEN product(nk) ELSE pairs_row[1]
        columns == Materialize(IF pairs_column = None THEN product(nk) ELSE pairs_column[1])
        outer   == Pass(rows, 1)
        ks      == [n \in 1..Len(outer) |->
                      LET inner == Pass(columns, n)
                      IN  [m \in 1..Len(inner) |->
                             <<outer[n][1], outer[n][2], inner[m][1], inner[m][2]>>]]
        result  == [n \in 1..Len(ks) |->
                      [m \in 1..Len(ks[n]) |-> eri_mknj_k(self, item, ks[n][m])]]
        r       == numpy_block(result)
        flat    == LET RECURSIVE Cat(_)
                       Cat(n) == IF n = 0 THEN <<>> ELSE Cat(n - 1) \o ks[n]
                   IN  Cat(Len(ks))
    IN  IF r.status # "ok"
        THEN [status |-> r.status, requests |-> flat]
        ELSE [status |-> "ok",
              ret |-> [shape |-> r.shape,
                       data  |-> [ij \in DOMAIN r.data |-> [block |-> r.data[ij], over |-> nk]]],
              requests |-> flat]

\* the 'mknj' patterns and the k-point pair arguments the model calls with:
\* None, or a list or an iterator of the pairs (k, k + q) for one transfer q,
\* k ascending or descending
Items_mknj == {"knmj", "mjkn"}

PairSeqs(nk) ==
    {[n \in 1..nk |-> <<n - 1, (n - 1 + q) % nk>>] : q \in 0..(nk - 1)} \cup
    {[n \in 1..nk |-> <<nk - n, (nk - n + q) % nk>>] : q \in 0..(nk - 1)}

PairArgs(nk) ==
    {None} \cup {Some(List(p)) : p \in PairSeqs(nk)} \cup {Some(Iter(p)) : p \in PairSeqs(nk)}

(***************************************************************************)
(* Raw eigenvectors: a two-dimensional array, one column per root.  An     *)
(* element [src, re, over] stands for the real number re / sqrt(over) and  *)
(* remembers the position src it had in the raw array; over <= 0 stands    *)
(* for the nan or inf that the division by sqrt(over) gives.  `view' tells *)
(* whether reshaping the array gives a view of it or a copy.               *)
(***************************************************************************)
RawVectors(nrows, nroots, amps, view) ==
    [shape |-> <<nrows, nroots>>,
     view  |-> view,
     flat  |-> [f \in 1..(nrows * nroots) |->
                  LET rc == Unravel(f - 1, <<nrows, nroots>>)
                  IN  [src  |-> rc,
                       re   |-> IF 2 * rc[1] < nrows THEN amps[rc[2] + 1][1]
                                ELSE amps[rc[2] + 1][2],
                       over |-> 1]]]

\* abs(e) ** 2 of a raw element
AbsSq(e) == (e.re * e.re) \div e.over

\* a variant of DivSqrt: e / n
DivPlain(e, n) == [e EXCEPT !.over = @ * n * n]

\* e / n ** .5
DivSqrt(e, n) == [e EXCEPT !.over = @ * n]

\* a variant of the checks that looks at the orbital counts first
vector_to_amplitudes_raises_nmo_first(nocc, nmo) ==
    IF ~ (\A k \in DOMAIN nmo : nmo[k] = nmo[0])
    THEN "Varying AO spaces are not implemented yet"
    ELSE IF ~ (\A k \in DOMAIN nocc : nocc[k] = nocc[0])
    THEN "Varying occupation numbers are not implemented yet"
    ELSE "no"

\* the checks of vector_to_amplitudes, lines 268-274
vector_to_amplitudes_raises(nocc, nmo) ==
    IF ~ (\A k \in DOMAIN nocc : nocc[k] = nocc[0])
    THEN "Varying occupation numbers are not implemented yet"
    ELSE IF ~ (\A k \in DOMAIN nmo : nmo[k] = nmo[0])
    THEN "Varying AO spaces are not implemented yet"
    ELSE "no"

\* vector_to_amplitudes, lines 256-280; `vectors' in the result is the caller's
\* array after the call
vector_to_amplitudes(vectors, nocc, nmo) ==
    IF vector_to_amplitudes_raises(nocc, nmo) # "no"
    THEN [status |-> "NotImplementedError",
          msg |-> vector_to_amplitudes_raises(nocc, nmo),
          ret |-> None, vectors |-> vectors]
    ELSE
    LET nk     == Cardinality(DOMAIN nocc)
        nocc_  == nocc[0]
        nmo_   == nmo[0]
        shape  == <<2, nk, nk, nocc_, nmo_ - nocc_, vectors.shape[2]>>
        v      == Reshape(vectors, shape)
        inner  == <<nk, nk, nocc_, nmo_ - nocc_>>
        \* norm = (abs(vectors) ** 2).sum(axis=(1, 2, 3, 4)); norm = 2 * (norm[0] - norm[1])
        \* (in C order element <<d, k1, k2, i, a, r>> is number (d * n + j) * roots + r,
        \* j counting the n combinations of k1, k2, i, a)
        sum_d(d, r) == SumTo(LAMBDA j : AbsSq(v.flat[(d * Prod(inner) + j) * shape[6] + r + 1]),
                             Prod(inner))
        norm   == Tabulate(LAMBDA r : 2 * (sum_d(0, r) - sum_d(1, r)), shape[6])
        \* vectors /= norm ** .5, the root being the last axis
        scaled == [shape |-> shape,
                   flat  |-> [f \in 1..Prod(shape) |->
                                DivSqrt(v.flat[f], norm[((f - 1) % shape[6]) + 1])]]
    IN  [status |-> "ok",
         msg |-> "",
         ret |-> Some(Transpose(scaled, <<5, 0, 1, 2, 3, 4>>)),
         vectors |-> IF vectors.view THEN [vectors EXCEPT !.flat = scaled.flat] ELSE vectors]

\* the x and y amplitudes of the roots the model calls with: x > y, x > y = 0,
\* x < y and x = y
Amps == <<<<2, 1>>, <<1, 0>>, <<1, 2>>, <<1, 1>>>>

\* up to MaxRoots roots, taken in turn from Amps, starting anywhere
AmpSeqs == {[r \in 1..n |-> Amps[((s + r - 1) % 4) + 1]] : s \in 0..3, n \in 1..MaxRoots}

\* the size of the response matrix: two rows per occupied-virtual pair and k-point pair
MatrixDim(nocc, nmo) ==
    2 * SumTo(LAMBDA f : nocc[f \div Cardinality(DOMAIN nocc)]
                          * (nmo[f % Cardinality(DOMAIN nocc)] - nocc[f % Cardinality(DOMAIN nocc)]),
              Cardinality(DOMAIN nocc) * Cardinality(DOMAIN nocc))

(***************************************************************************)
(* build_matrix and eig of pyscf.tdscf.rhf_slow (lines 252-253).  The      *)
(* response matrix is named by the provider class and the model it was     *)
(* assembled from; eig gives the upper half of the spectrum, at most       *)
(* nroots roots, and raises ValueError for a driver it does not know.  The *)
(* eigenvectors of root r are those of amplitudes Amps[r].     `fault'     *)
(* names the external step that fails in this call, if any.                *)
(***************************************************************************)
Faults == {"none", "provider", "build_matrix", "eig"}
Drivers == {None, Some("eig"), Some("davidson")}
NRoots == {None} \cup {Some(n) : n \in 1..MaxRoots}

build_matrix(eri) ==
    [cls |-> eri.cls, model |-> eri.model, dim |-> MatrixDim(nocc_of(eri), nmo_of(eri))]

eig(m, driver, nroots, fault) ==
    LET driver_ == IF driver = None THEN "eig" ELSE driver[1]
        half    == m.dim \div 2
        n       == IF nroots = None \/ nroots[1] > half THEN half ELSE nroots[1]
    IN  IF driver_ # "eig" THEN [status |-> "ValueError"]
        ELSE IF fault = "eig" THEN [status |-> "LinAlgError"]
        ELSE [status |-> "ok",
              vals |-> [vals_of |-> m, n |-> n],
              vecs |-> RawVectors(m.dim, n, [r \in 1..n |-> Amps[((r - 1) % 4) + 1]], FALSE)]

\* isinstance(model, PhysERI)
IsProvider(model) == "cls" \in DOMAIN model

\* a variant of iscomplexobj that answers for real arrays
isrealobj(mo_coeff) == \A k \in DOMAIN mo_coeff : mo_coeff[k].dtype # "complex128"

\* numpy.iscomplexobj(model.mo_coeff)
iscomplexobj(mo_coeff) == \E k \in DOMAIN mo_coeff : mo_coeff[k].dtype = "complex128"

Raised(status, built, used) ==
    [status |-> status, ret |-> None, built |-> built, used |-> used, vta |-> None]

(***************************************************************************)
(* kernel, lines 283-310.  The result also tells the providers the call    *)
(* constructed (built), the provider handed to build_matrix (used) and the *)
(* outcome of its call of vector_to_amplitudes (vta).  id is the identity  *)
(* a provider constructed by the call gets.                                *)
(***************************************************************************)
kernel(model, driver, nroots, return_eri, fault, id) ==
    IF ~ IsProvider(model) /\ fault = "provider"
    THEN Raised("RuntimeError", <<>>, None)
    ELSE
    LET eri   == IF IsProvider(model) THEN model
                 ELSE IF iscomplexobj(model.mo_coeff)
                 THEN PhysERI4_init("PhysERI4", model, id).self
                 ELSE PhysERI4_init("PhysERI8", model, id).self
        built == IF IsProvider(model) THEN <<>> ELSE <<eri>>
        e     == eig(build_matrix(eri), driver, nroots, fault)
    IN  IF fault = "build_matrix" THEN Raised("RuntimeError", built, Some(eri))
        ELSE IF e.status # "ok" THEN Raised(e.status, built, Some(eri))
        ELSE LET vecs == vector_to_amplitudes(e.vecs, nocc_of(eri), nmo_of(eri))
             IN  IF vecs.status # "ok"
                 THEN [Raised(vecs.status, built, Some(eri)) EXCEPT !.vta = Some(vecs)]
                 ELSE [status |-> "ok",
                       ret    |-> Some(IF return_eri THEN <<e.vals, vecs.ret[1], eri>>
                                       ELSE <<e.vals, vecs.ret[1]>>),
                       built  |-> built,
                       used   |-> Some(eri),
                       vta    |-> Some(vecs)]

(***************************************************************************)
(* The container.  TDRHF.__init__, lines 314-325, and TDRHF.kernel, lines  *)
(* 327-340: the three attributes are assigned together, after kernel has   *)
(* returned.                                                               *)
(***************************************************************************)
TDRHF_init(mf_) ==
    [_scf |-> mf_, driver |-> None, nroots |-> None, eri |-> None, xy |-> None, e |-> None]

\* a variant of TDRHF.kernel that always starts from the mean-field model
TDRHF_kernel_fresh(self, fault, id) ==
    LET r == kernel(self._scf, self.driver, self.nroots, TRUE, fault, id)
    IN  IF r.status # "ok"
        THEN [self |-> self, status |-> r.status, ret |-> None, call |-> r]
        ELSE [self   |-> [self EXCEPT !.e = Some(r.ret[1][1]), !.xy = Some(r.ret[1][2]),
                                      !.eri = Some(r.ret[1][3])],
              status |-> "ok",
              ret    |-> Some(<<r.ret[1][1], r.ret[1][2]>>),
              call   |-> r]

TDRHF_kernel(self, fault, id) ==
    LET r == kernel(IF self.eri = None THEN self._scf ELSE self.eri[1],
                    self.driver, self.nroots, TRUE, fault, id)
    IN  IF r.status # "ok"
        THEN [self |-> self, status |-> r.status, ret |-> None, call |-> r]
        ELSE [self   |-> [self EXCEPT !.e = Some(r.ret[1][1]), !.xy = Some(r.ret[1][2]),
                                      !.eri = Some(r.ret[1][3])],
              status |-> "ok",
              ret    |-> Some(<<r.ret[1][1], r.ret[1][2]>>),
              call   |-> r]

\* the models the kernel is run on: one occupied orbital and at most two
\* virtual ones at the first k-point; the container's have one virtual orbital
KernelModels == ModelsOf({s \in Shapes : s[1] = 1 /\ s[2] <= 3})
TDModels == ModelsOf({<<1, 2>>})

(***************************************************************************)
(* State.  mf is the mean-field model; eri the provider built for it (None *)
(* before); transforms the backend calls its constructor made; td the      *)
(* TDRHF container (None where there is none); op the call in progress,    *)
(* with its arguments and its result, [name |-> "idle"] between two calls  *)
(* (for the container: the last call).                                     *)
(***************************************************************************)
VARIABLES mf, eri, transforms, td, op

vars == <<mf, eri, transforms, td, op>>

Idle == [name |-> "idle"]

Init ==
    /\ mf \in Models
    /\ eri = None
    /\ transforms = <<>>
    /\ td = None
    /\ op = Idle

\* eri = PhysERI(mf), PhysERI4(mf) or PhysERI8(mf)
NewProvider ==
    /\ eri = None
    /\ op = Idle
    /\ \E cls \in Classes :
          \E new \in {IF cls = "PhysERI" THEN PhysERI_init(mf, 1) ELSE PhysERI4_init(cls, mf, 1)} :
              /\ eri' = Some(new.self)
              /\ transforms' = new.transforms
    /\ UNCHANGED <<mf, td, op>>

\* eri.__calc_block__(item, k)
CalcBlock ==
    /\ eri # None
    /\ op = Idle
    /\ \E item \in Items_ov, k \in KQuads(mf.nk) :
          \E r \in {calc_block(eri[1], item, k)} :
              op' = [name |-> "calc_block", item |-> item, k |-> k,
                     ret |-> r.block, called |-> r.transforms]
    /\ UNCHANGED <<mf, eri, transforms, td>>

\* eri.tdhf_diag(pairs)
TdhfDiag ==
    /\ eri # None
    /\ op = Idle
    /\ \E pairs \in PairArgs(mf.nk) :
          \E r \in {tdhf_diag(eri[1], pairs)} :
              op' = [name |-> "tdhf_diag", pairs |-> pairs, status |-> r.status,
                     ret |-> r.ret, requests |-> r.requests]
    /\ UNCHANGED <<mf, eri, transforms, td>>

\* eri.eri_mknj(item, pairs_row, pairs_column)
EriMknj ==
    /\ eri # None
    /\ op = Idle
    /\ \E item \in Items_mknj, pairs_row \in PairArgs(mf.nk), pairs_column \in PairArgs(mf.nk) :
          \E r \in {eri_mknj(eri[1], item, pairs_row, pairs_column)} :
              op' = [name |-> "eri_mknj", item |-> item, pairs_row |-> pairs_row,
                     pairs_column |-> pairs_column, status |-> r.status,
                     ret |-> IF r.status = "ok" THEN Some(r.ret) ELSE None,
                     requests |-> r.requests]
    /\ UNCHANGED <<mf, eri, transforms, td>>

\* vector_to_amplitudes(vectors, k_nocc(mf), k_nmo(mf)), before a provider is built
VectorToAmplitudes ==
    /\ eri = None
    /\ op = Idle
    /\ \E amps \in AmpSeqs, view \in BOOLEAN, nocc \in {k_nocc(mf)}, nmo \in {k_nmo(mf)} :
          \E vectors \in {RawVectors(MatrixDim(nocc, nmo), Len(amps), amps, view)} :
          \E r \in {vector_to_amplitudes(vectors, nocc, nmo)} :
              op' = [name |-> "vector_to_amplitudes", vectors |-> vectors,
                     nocc |-> nocc, nmo |-> nmo, status |-> r.status, msg |-> r.msg,
                     ret |-> r.ret, after |-> r.vectors]
    /\ UNCHANGED <<mf, eri, transforms, td>>

\* the caller takes the result
Return ==
    /\ op # Idle
    /\ op' = Idle
    /\ UNCHANGED <<mf, eri, transforms, td>>

Next == NewProvider \/ CalcBlock \/ TdhfDiag \/ EriMknj \/ VectorToAmplitudes \/ Return

Spec == Init /\ [][Next]_vars

(***************************************************************************)
(* The kernel function, called with the model or with a provider.          *)
(***************************************************************************)
InitKernel ==
    /\ mf \in KernelModels
    /\ eri = None
    /\ transforms = <<>>
    /\ td = None
    /\ op = Idle

\* kernel(mf, ...) before a provider is built, kernel(eri, ...) after
Kernel ==
    /\ op = Idle
    /\ \E driver \in Drivers, nroots \in NRoots, return_eri \in BOOLEAN, fault \in Faults,
          arg \in {IF eri = None THEN mf ELSE eri[1]} :
          \E r \in {kernel(arg, driver, nroots, return_eri, fault, 2)} :
              op' = [name |-> "kernel", arg |-> arg, driver |-> driver, nroots |-> nroots,
                     return_eri |-> return_eri, fault |-> fault, status |-> r.status,
                     ret |-> r.ret, built |-> r.built, used |-> r.used, vta |-> r.vta]
    /\ UNCHANGED <<mf, eri, transforms, td>>

NextKernel == NewProvider \/ VectorToAmplitudes \/ Kernel \/ Return

SpecKernel == InitKernel /\ [][NextKernel]_vars

(***************************************************************************)
(* The container: td = TDRHF(mf), then td.driver and td.nroots are set and *)
(* td.kernel() is called, in any order.  Here op is the last call of       *)
(* td.kernel() made since the configuration was last changed, with the     *)
(* container as it was before the call (before) and the outcome of the     *)
(* call that came just before it under the same configuration (prev).      *)
(***************************************************************************)
InitTD ==
    /\ mf \in TDModels
    /\ eri = None
    /\ transforms = <<>>
    /\ td = Some(TDRHF_init(mf))
    /\ op = Idle

SetDriver ==
    /\ \E driver \in Drivers \ {td[1].driver} : td' = Some([td[1] EXCEPT !.driver = driver])
    /\ op' = Idle
    /\ UNCHANGED <<mf, eri, transforms>>

SetNroots ==
    /\ \E nroots \in NRoots \ {td[1].nroots} : td' = Some([td[1] EXCEPT !.nroots = nroots])
    /\ op' = Idle
    /\ UNCHANGED <<mf, eri, transforms>>

\* td.kernel(); a provider constructed by the call is a new object
Compute ==
    /\ \E fault \in Faults :
          \E r \in {TDRHF_kernel(td[1], fault, IF td[1].eri = None THEN 1 ELSE td[1].eri[1].id + 1)} :
              /\ td' = Some(r.self)
              /\ op' = [name |-> "TDRHF.kernel", before |-> td[1], fault |-> fault,
                        prev |-> IF op = Idle THEN None
                                 ELSE Some([status |-> op.status, ret |-> op.ret]),
                        status |-> r.status, ret |-> r.ret, built |-> r.call.built,
                        used |-> r.call.used]
    /\ UNCHANGED <<mf, eri, transforms>>

NextTD == SetDriver \/ SetNroots \/ Compute

SpecTD == InitTD /\ [][NextTD]_vars

(***************************************************************************)
(* Properties of the block computation (Spec).                             *)
(***************************************************************************)
IsCalcBlock == op # Idle /\ op.name = "calc_block"

Conserving(self, k) == self.kconserv[<<k[1], k[2], k[3]>>] = k[4]

\* C1: for every 'o'/'v' pattern and every k-point quadruple with
\* kconserv[k1, k2, k3] # k4, the block computation of the 4-fold and 8-fold
\* providers returns, without calling the integral backend, an all-zero tensor
\* whose i-th dimension is nocc[k_i] for 'o' and nmo[k_i] - nocc[k_i] for 'v'.
C1_ZeroBlock ==
    (IsCalcBlock /\ eri[1].cls \in {"PhysERI4", "PhysERI8"} /\ ~ Conserving(eri[1], op.k)) =>
        /\ op.called = <<>>
        /\ op.ret.shape = [i \in 1..4 |->
                             IF op.item[i] = "o" THEN k_nocc(mf)[op.k[i]]
                             ELSE k_nmo(mf)[op.k[i]] - k_nocc(mf)[op.k[i]]]
        /\ \A f \in DOMAIN op.ret.flat : op.ret.flat[f] = Zero

C1_Witness ==
    /\ IsCalcBlock
    /\ eri[1].cls = "PhysERI8"
    /\ ~ Conserving(eri[1], op.k)
    /\ op.item = <<"o", "v", "v", "o">>
    /\ k_nmo(mf)[op.k[2]] # k_nmo(mf)[op.k[1]]

\* C2: on the same model the eager provider returns, for every pattern and
\* every quadruple, the block the 4-fold provider returns (the slice of the
\* cached full tensor equals the transform of the sliced coefficients), and
\* a quadruple is a key of the cache exactly if kconserv[k1, k2, k3] = k4.
C2_EagerEqualsLazy ==
    (IsCalcBlock /\ eri[1].cls = "PhysERI") =>
        /\ op.ret = PhysERI4_calc_block(PhysERI4_init("PhysERI4", mf, 1).self, op.item, op.k).block
        /\ (op.k \in DOMAIN eri[1].full_eri_k) <=> Conserving(eri[1], op.k)

C2_Witness ==
    /\ IsCalcBlock
    /\ eri[1].cls = "PhysERI"
    /\ Conserving(eri[1], op.k)
    /\ op.item = <<"o", "v", "v", "o">>
    /\ op.k[1] # op.k[2]
    /\ Len(op.ret.flat) > 1

\* C9: constructing the eager provider calls the transform once for each
\* ordered triple, in loop order, and stores the result under the key
\* (k1, k2, k3, kconserv[k1, k2, k3]): the cache has N_k^3 entries, one k4
\* per triple; whatever blocks are retrieved afterwards, the cache and the
\* list of transform calls stay as the constructor left them, and a block
\* retrieval calls no transform.
C9_CacheBuiltOnce ==
    (eri # None /\ eri[1].cls = "PhysERI") =>
        LET nk   == mf.nk
            keys == DOMAIN eri[1].full_eri_k
            \* the f-th ordered triple, first index slowest
            triple(f) == <<(f - 1) \div (nk * nk), ((f - 1) \div nk) % nk, (f - 1) % nk>>
        IN  /\ Len(transforms) = nk * nk * nk
            /\ \A f \in 1..(nk * nk * nk) :
                  transforms[f] = triple(f) \o <<eri[1].kconserv[triple(f)]>>
            /\ keys = {transforms[f] : f \in 1..Len(transforms)}
            /\ Cardinality(keys) = nk * nk * nk
            /\ \A k \in keys : eri[1].full_eri_k[k] = Stored(k)
            /\ IsCalcBlock => op.called = <<>>

C9_Witness ==
    /\ eri # None
    /\ eri[1].cls = "PhysERI"
    /\ mf.nk = 2
    /\ IsCalcBlock
    /\ op.k \in DOMAIN eri[1].full_eri_k

(***************************************************************************)
(* Properties of the merged blocks and of the reshaper (Spec).             *)
(***************************************************************************)
\* the pairs an argument of eri_mknj or tdhf_diag stands for
AllPairs(nk) == [f \in 1..(nk * nk) |-> <<(f - 1) \div nk, (f - 1) % nk>>]
PairsOf(arg, nk) == IF arg = None THEN AllPairs(nk) ELSE arg[1].items

\* C8: eri_mknj requests one sub-block per combination of a row pair and a
\* column pair, in row-major order, lays them out as a |rows| x |columns|
\* block matrix and divides by the number of k-points; this holds for lists
\* and for single-pass iterators alike, and an omitted argument stands for
\* all N_k^2 ordered pairs in lexicographic order.
C8_RowMajorBlocks ==
    (op # Idle /\ op.name = "eri_mknj") =>
        LET rows == PairsOf(op.pairs_row, mf.nk)
            cols == PairsOf(op.pairs_column, mf.nk)
        IN  /\ op.status = "ok"
            /\ op.requests = [f \in 1..(Len(rows) * Len(cols)) |->
                                 rows[((f - 1) \div Len(cols)) + 1] \o
                                 cols[((f - 1) % Len(cols)) + 1]]
            /\ op.ret[1].shape = <<Len(rows), Len(cols)>>
            /\ \A i \in 1..Len(rows), j \in 1..Len(cols) :
                  op.ret[1].data[<<i - 1, j - 1>>] =
                      [block |-> [item |-> op.item, k |-> rows[i] \o cols[j]],
                       over  |-> mf.nk]

C8_Witness ==
    /\ op # Idle
    /\ op.name = "eri_mknj"
    /\ mf.nk = 2
    /\ op.pairs_row # None
    /\ op.pairs_column # None
    /\ op.pairs_row[1].kind = "iterator"
    /\ op.pairs_column[1].kind = "iterator"
    /\ op.pairs_row[1].items # op.pairs_column[1].items
    /\ op.status = "ok"
    /\ Len(op.requests) = 4

\* C10: with default arguments tdhf_diag puts the diagonal block of pair
\* (k1, k2) at block position k1 * N_k + k2 and eri_mknj the sub-block of row
\* pair (k1, k2) and column pair (k3, k4) at (k1 * N_k + k2, k3 * N_k + k4);
\* vector_to_amplitudes gives a tensor of shape (roots, 2, N_k, N_k, nocc,
\* nmo - nocc) whose element [r, d, k1, k2, i, a] is read from row
\* (((d * N_k + k1) * N_k + k2) * nocc + i) * nvir + a of root r.
C10_PairOrdering ==
    LET nk == mf.nk
    IN  /\ (op # Idle /\ op.name = "tdhf_diag" /\ op.pairs = None) =>
              /\ op.ret.shape = <<nk * nk, nk * nk>>
              /\ \A k1, k2 \in 0..(nk - 1) :
                    op.ret.data[<<k1 * nk + k2, k1 * nk + k2>>] = Some(tdhf_diag_k(eri[1], k1, k2))
              /\ \A p, q \in 0..(nk * nk - 1) : p # q => op.ret.data[<<p, q>>] = Some(ZeroBlock)
        /\ (op # Idle /\ op.name = "eri_mknj" /\ op.pairs_row = None /\ op.pairs_column = None) =>
              /\ op.status = "ok"
              /\ op.ret[1].shape = <<nk * nk, nk * nk>>
              /\ \A k1, k2, k3, k4 \in 0..(nk - 1) :
                    op.ret[1].data[<<k1 * nk + k2, k3 * nk + k4>>].block =
                        eri_mknj_k(eri[1], op.item, <<k1, k2, k3, k4>>)
        /\ (op # Idle /\ op.name = "vector_to_amplitudes" /\ op.status = "ok") =>
              LET no == op.nocc[0]
                  nv == op.nmo[0] - op.nocc[0]
                  t  == op.ret[1]
              IN  /\ t.shape = <<op.vectors.shape[2], 2, nk, nk, no, nv>>
                  /\ \A idx \in Indices(t.shape) :
                        At(t, idx).src =
                            <<(((idx[2] * nk + idx[3]) * nk + idx[4]) * no + idx[5]) * nv + idx[6],
                              idx[1]>>

C10_Witness ==
    /\ op # Idle
    /\ op.name = "vector_to_amplitudes"
    /\ op.status = "ok"
    /\ mf.nk = 2
    /\ op.nocc[0] = 2
    /\ op.vectors.shape[2] = 2
    /\ At(op.ret[1], <<1, 1, 0, 1, 1, 0>>).src = <<11, 1>>

\* the sum of re ^ 2 over the elements of direction d of root r of an
\* amplitude tensor, all of them over the same divisor
SumDir(t, r, d) ==
    LET inner == SubSeq(t.shape, 3, 6)
    IN  SumTo(LAMBDA f : At(t, <<r, d>> \o Unravel(f, inner)).re * At(t, <<r, d>> \o Unravel(f, inner)).re,
              Prod(inner))

Normalized(t, r) ==
    /\ \A idx \in Indices(t.shape) : idx[1] = r => At(t, idx).over = At(t, <<r, 0, 0, 0, 0, 0>>).over
    /\ At(t, <<r, 0, 0, 0, 0, 0>>).over > 0
    /\ 2 * (SumDir(t, r, 0) - SumDir(t, r, 1)) = At(t, <<r, 0, 0, 0, 0, 0>>).over

\* whether the x half of column r of the raw array outweighs the y half
XDominant(vectors, r) ==
    LET half == vectors.shape[1] \div 2
        sq(row) == At(vectors, <<row, r>>).re * At(vectors, <<row, r>>).re
    IN  SumTo(LAMBDA row : sq(row), half) > SumTo(LAMBDA row : sq(half + row), half)

IsAmplitudes == op # Idle /\ op.name = "vector_to_amplitudes" /\ op.status = "ok"

\* C7 (as amended): every root returned by vector_to_amplitudes whose raw
\* vector has sum|x|^2 > sum|y|^2 satisfies 2 * (sum|x|^2 - sum|y|^2) = 1,
\* the sums running over both k-point axes, the occupied and the virtual axis.
C7_NormalizedWhereXDominates ==
    IsAmplitudes =>
        \A r \in 0..(op.vectors.shape[2] - 1) :
            XDominant(op.vectors, r) => Normalized(op.ret[1], r)

C7_Witness ==
    /\ IsAmplitudes
    /\ mf.nk = 2
    /\ op.vectors.shape[2] = 2
    /\ XDominant(op.vectors, 0)
    /\ XDominant(op.vectors, 1)
    /\ At(op.ret[1], <<1, 0, 0, 0, 0, 0>>).over > 1

\* C7 as stated: every root returned by vector_to_amplitudes satisfies
\* 2 * (sum|x|^2 - sum|y|^2) = 1.
C7_EveryRootNormalized ==
    IsAmplitudes =>
        \A r \in 0..(op.vectors.shape[2] - 1) : Normalized(op.ret[1], r)

(***************************************************************************)
(* Properties of kernel (SpecKernel).                                      *)
(***************************************************************************)
Heterogeneous(nocc, nmo) ==
    \/ \E k \in DOMAIN nocc : nocc[k] # nocc[0]
    \/ \E k \in DOMAIN nmo : nmo[k] # nmo[0]

IsKernel == op # Idle /\ op.name = "kernel"

ModelOf(arg) == IF IsProvider(arg) THEN arg.model ELSE arg

\* C5: for every model whose occupied counts or whose orbital counts differ
\* between k-points, vector_to_amplitudes raises NotImplementedError, the
\* occupied counts being looked at first, returns no data and leaves the
\* input vectors as they were; kernel on such a model returns nothing and
\* raises this condition (unless an earlier step of it fails).
C5_UnsupportedRaisedEagerly ==
    /\ (op # Idle /\ op.name = "vector_to_amplitudes" /\ Heterogeneous(op.nocc, op.nmo)) =>
          /\ op.status = "NotImplementedError"
          /\ op.ret = None
          /\ op.after = op.vectors
          /\ op.msg = IF \E k \in DOMAIN op.nocc : op.nocc[k] # op.nocc[0]
                      THEN "Varying occupation numbers are not implemented yet"
                      ELSE "Varying AO spaces are not implemented yet"
    /\ (IsKernel /\ Heterogeneous(k_nocc(ModelOf(op.arg)), k_nmo(ModelOf(op.arg)))) =>
          /\ op.status # "ok"
          /\ op.ret = None
          /\ op.vta # None =>
                /\ op.status = "NotImplementedError"
                /\ op.vta[1].status = "NotImplementedError"
                /\ op.vta[1].ret = None
          /\ (op.fault = "none" /\ op.driver \in {None, Some("eig")}) =>
                /\ op.vta # None
                /\ op.status = "NotImplementedError"

C5_Witness ==
    /\ IsKernel
    /\ mf.nk = 2
    /\ k_nocc(mf)[1] # k_nocc(mf)[0]
    /\ k_nmo(mf)[1] # k_nmo(mf)[0]
    /\ op.status = "NotImplementedError"
    /\ op.vta # None
    /\ op.vta[1].msg = "Varying occupation numbers are not implemented yet"

\* C6: kernel uses a provider passed as first argument as it is, with the
\* provider's own model, and constructs none; for a model it constructs a
\* PhysERI4 if the orbital coefficients are complex and a PhysERI8 if they
\* are real; the provider returned with return_eri = True is the one the
\* matrix was built from.
C6_ProviderSelection ==
    IsKernel =>
        /\ IsProvider(op.arg) =>
              /\ op.built = <<>>
              /\ op.used = Some(op.arg)
        /\ (~ IsProvider(op.arg) /\ op.fault # "provider") =>
              /\ Len(op.built) = 1
              /\ op.built[1].model = op.arg
              /\ op.built[1].cls =
                    IF \E k \in DOMAIN op.arg.mo_coeff : op.arg.mo_coeff[k].dtype = "complex128"
                    THEN "PhysERI4" ELSE "PhysERI8"
              /\ op.used = Some(op.built[1])
        /\ op.status = "ok" =>
              /\ Len(op.ret[1]) = IF op.return_eri THEN 3 ELSE 2
              /\ op.return_eri => op.ret[1][3] = op.used[1]
              /\ op.ret[1][1].vals_of = build_matrix(op.used[1])

C6_Witness ==
    /\ IsKernel
    /\ ~ IsProvider(op.arg)
    /\ op.status = "ok"
    /\ op.return_eri
    /\ op.ret[1][3].cls = "PhysERI4"

(***************************************************************************)
(* Properties of the container (SpecTD).                                   *)
(***************************************************************************)
IsCompute == op # Idle /\ op.name = "TDRHF.kernel"

\* C3: a successful td.kernel() leaves td.eri set and td.e and td.xy holding
\* the values it returned, which are those of a direct call of kernel on the
\* same model; a call made with a provider stored constructs none and passes
\* the stored one; a second call under the same configuration returns what
\* the first returned.
C3_Idempotent ==
    (IsCompute /\ op.status = "ok") =>
        /\ td[1].eri # None
        /\ td[1].e = Some(op.ret[1][1])
        /\ td[1].xy = Some(op.ret[1][2])
        /\ op.ret = kernel(mf, td[1].driver, td[1].nroots, FALSE, "none", 0).ret
        /\ op.before.eri # None =>
              /\ op.built = <<>>
              /\ op.used = op.before.eri
              /\ td[1].eri = op.before.eri
        /\ (op.prev # None /\ op.prev[1].status = "ok") =>
              /\ op.ret = op.prev[1].ret
              /\ op.before.eri # None

C3_Witness ==
    /\ IsCompute
    /\ op.status = "ok"
    /\ op.prev # None
    /\ op.prev[1].status = "ok"
    /\ op.before.eri # None
    /\ op.built = <<>>
    /\ mf.nk = 2

\* C4: when td.kernel() raises, the call writes none of td.e, td.xy and
\* td.eri, and the container does not expose eigenvalues or amplitudes that
\* the failed call did not produce.
C4_NothingStaleAfterFailure ==
    (IsCompute /\ op.status # "ok") =>
        /\ td[1] = op.before
        /\ td[1].e = None
        /\ td[1].xy = None

\* the failed call that follows a successful one
C4_Witness ==
    /\ IsCompute
    /\ op.status # "ok"
    /\ td[1] = op.before
    /\ td[1].e # None
    /\ td[1].xy # None

====
